---- MODULE Spec2Model ----
(***************************************************************************)
(* Model of periph's digital stream package (conn/gpio/stream): the three  *)
(* stream variants Bits, Edges and Program, their Resolution() and         *)
(* Duration() methods, and Raster32, which rasterizes a stream into a pair *)
(* of caller-owned uint32 buffers (clear, set) under two masks.            *)
(*                                                                         *)
(* A stream is a record tagged by its Go type.  A buffer is a sequence of  *)
(* words; Go index i is TLA+ index i+1.  time.Duration values are plain    *)
(* integers (one unit = one tick); every product stays far inside int64.   *)
(* An error is the message given to errors.New, and nil is "nil".          *)
(***************************************************************************)
EXTENDS Integers, Sequences, FiniteSets, TLC

VARIABLES
    calls,    \* the Raster32 calls of the run: sequence of argument records
    clear0,   \* the clear buffer as the caller allocated it
    set0,     \* the set buffer as the caller allocated it
    clear,    \* the clear buffer now
    set,      \* the set buffer now
    done,     \* indices into calls, in the order the calls were made
    errs,     \* errs[k]: what call k returned ("pending" before it is made)
    div,      \* the run of findDivisor: its arguments, where it is, what it returned
    clk,      \* the clock: its registers and the run of clock.set or calcSource
    nrz,      \* the sk6812rgbw encoder: its input, its output buffer
    spi       \* the sysfs SPI handle, the device behind it and the last call

vars == <<calls, clear0, set0, clear, set, done, errs, div, clk, nrz, spi>>

\* no findDivisor call in the run
NoDiv == [pc |-> "idle"]
\* no clock, no encoder, no SPI handle in the run
NoClk == [pc |-> "idle"]
NoNrz == [pc |-> "idle"]
NoSpi == [pc |-> "idle"]

(***************************************************************************)
(* Bounds of the model.                                                    *)
(***************************************************************************)
MaxBytes == 2       \* longest gpio.Bits, in bytes
MaxEdges == 2       \* longest Edges.Edges
MaxEdgeDur == 2     \* longest single edge
MaxRes == 3         \* largest Res / resolution
MaxMask == 2        \* largest mask word of a single call
MaxParts == 2       \* longest Program.Parts
MaxLoops == 2       \* largest Program.Loops
MaxShareMask == 4   \* largest mask word when two streams share the buffers

ByteVals == {0, 1, 178}           \* 0x00, 0x01, 0xB2
\* Res and resolution are time.Duration values: negative, zero or positive
ResVals == (-1)..MaxRes
BufLens == {0, 1} \cup {8 * k + d : k \in 1..MaxBytes, d \in {-1, 0, 1}}

SeqsUpTo(S, n) == UNION {[1..k -> S] : k \in 0..n}

(***************************************************************************)
(* Go's bitwise operators on non-negative words.                           *)
(***************************************************************************)
RECURSIVE BitOr(_, _)
BitOr(a, b) ==
    IF a = 0 THEN b
    ELSE IF b = 0 THEN a
    ELSE 2 * BitOr(a \div 2, b \div 2) + (IF a % 2 = 1 \/ b % 2 = 1 THEN 1 ELSE 0)

RECURSIVE BitAnd(_, _)
BitAnd(a, b) ==
    IF a = 0 \/ b = 0 THEN 0
    ELSE 2 * BitAnd(a \div 2, b \div 2) + (IF a % 2 = 1 /\ b % 2 = 1 THEN 1 ELSE 0)

RECURSIVE Pow2(_)
Pow2(j) == IF j = 0 THEN 1 ELSE 2 * Pow2(j - 1)

\* b.Bits[i]&(1<<uint(j)) != 0
BitIsSetMSB(byte, j) == (byte \div Pow2(7 - j)) % 2 = 1
BitIsSet(byte, j) == (byte \div Pow2(j)) % 2 = 1

\* w |= mask
AssignMask(w, mask) == mask
OrMask(w, mask) == BitOr(w, mask)

RECURSIVE SumSeq(_)
SumSeq(q) == IF q = <<>> THEN 0 ELSE Head(q) + SumSeq(Tail(q))

Min(a, b) == IF a < b THEN a ELSE b

(***************************************************************************)
(* The stream variants.                                                    *)
(***************************************************************************)
Bits(bs, r) == [type |-> "Bits", Bits |-> bs, Res |-> r]
Edges(es, r) == [type |-> "Edges", Edges |-> es, Res |-> r]
Program(ps, r, l) == [type |-> "Program", Parts |-> ps, Res |-> r, Loops |-> l]
\* a gpio.Stream implemented outside package stream
Foreign(r, d) == [type |-> "Foreign", Res |-> r, Dur |-> d]

Resolution(s) == s.Res

Bits_Duration(b) == b.Res * Len(b.Bits)

\* the sum misses the first edge
Edges_Duration_SkipFirst(e) == IF e.Edges = <<>> THEN 0 ELSE SumSeq(Tail(e.Edges))
Edges_Duration(e) == SumSeq(e.Edges)

RECURSIVE Duration(_)
\* the sum of the parts, never multiplied
Program_Duration_NoLoops(p) ==
    SumSeq([i \in 1..Len(p.Parts) |-> Duration(p.Parts[i])])
Program_Duration(p) ==
    LET d == SumSeq([i \in 1..Len(p.Parts) |-> Duration(p.Parts[i])])
    IN  IF p.Loops > 1 THEN d * p.Loops ELSE d

Duration(s) ==
    CASE s.type = "Bits" -> Bits_Duration(s)
      [] s.type = "Edges" -> Edges_Duration(s)
      [] s.type = "Program" -> Program_Duration(s)
      [] OTHER -> s.Dur

(***************************************************************************)
(* Bits.raster32                                                           *)
(***************************************************************************)
Bits_err_NoResCheck(b, resolution, cl) ==
    IF Bits_Duration(b) > resolution * Len(cl) THEN "buffer is too short"
    ELSE "nil"

\* the two early returns
Bits_err(b, resolution, cl) ==
    IF resolution # b.Res THEN "TODO: implement resolution matching"
    ELSE IF Bits_Duration(b) > resolution * Len(cl) THEN "buffer is too short"
    ELSE "nil"

\* m: the number of bytes the loop walks
Bits_m(b, cl) == Min(Len(cl) \div 8, Len(b.Bits))

\* the loop: slot 8*i+j takes bit j of byte i, for i < m
Bits_fill(b, cl, st, setMask, clearMask) ==
    LET m == Bits_m(b, cl)
        lvl(k) == BitIsSet(b.Bits[((k - 1) \div 8) + 1], (k - 1) % 8)
    IN  [clear |-> [k \in 1..Len(cl) |->
                      IF k <= 8 * m /\ ~lvl(k) THEN OrMask(cl[k], clearMask) ELSE cl[k]],
         set   |-> [k \in 1..Len(st) |->
                      IF k <= 8 * m /\ lvl(k) THEN OrMask(st[k], setMask) ELSE st[k]]]

Bits_raster32_LateCheck(b, resolution, cl, st, setMask, clearMask) ==
    LET e == Bits_err(b, resolution, cl)
        f == Bits_fill(b, cl, st, setMask, clearMask)
    IN  [err |-> e, clear |-> f.clear, set |-> f.set]

Bits_raster32(b, resolution, cl, st, setMask, clearMask) ==
    LET e == Bits_err(b, resolution, cl)
        f == Bits_fill(b, cl, st, setMask, clearMask)
    IN  IF e # "nil" THEN [err |-> e, clear |-> cl, set |-> st]
        ELSE [err |-> "nil", clear |-> f.clear, set |-> f.set]

(***************************************************************************)
(* Edges.raster32                                                          *)
(***************************************************************************)
Edges_err(e, resolution, cl) ==
    IF resolution < e.Res THEN "resolution is too coarse"
    ELSE IF Edges_Duration(e) > resolution * Len(cl) THEN "buffer is too short"
    ELSE "nil"

\* l := gpio.High, never reassigned: every slot of the buffer takes the set branch
Edges_fill(e, cl, st, setMask, clearMask) ==
    LET l == TRUE
    IN  [clear |-> [k \in 1..Len(cl) |-> IF ~l THEN OrMask(cl[k], clearMask) ELSE cl[k]],
         set   |-> [k \in 1..Len(st) |->
                      IF l /\ k <= Len(cl) THEN OrMask(st[k], setMask) ELSE st[k]]]

Edges_raster32(e, resolution, cl, st, setMask, clearMask) ==
    LET r == Edges_err(e, resolution, cl)
        f == Edges_fill(e, cl, st, setMask, clearMask)
    IN  IF r # "nil" THEN [err |-> r, clear |-> cl, set |-> st]
        ELSE [err |-> "nil", clear |-> f.clear, set |-> f.set]

(***************************************************************************)
(* Program.raster32                                                        *)
(***************************************************************************)
Program_raster32_UnboundedOnly(p, resolution, cl, st, setMask, clearMask) ==
    [err |-> IF p.Loops < 0 THEN "implement me" ELSE "nil", clear |-> cl, set |-> st]

Program_raster32(p, resolution, cl, st, setMask, clearMask) ==
    [err |-> "implement me", clear |-> cl, set |-> st]

(***************************************************************************)
(* Raster32                                                                *)
(***************************************************************************)
Raster32_check_NoLen(cl, st, setMask, clearMask) ==
    IF setMask = 0 THEN "setMask is 0"
    ELSE IF clearMask = 0 THEN "clearMask is 0"
    ELSE IF Len(cl) = 0 THEN "clear buffer is empty"
    ELSE IF Len(st) = 0 THEN "set buffer is empty"
    ELSE "nil"

\* the five argument checks
Raster32_check(cl, st, setMask, clearMask) ==
    IF setMask = 0 THEN "setMask is 0"
    ELSE IF clearMask = 0 THEN "clearMask is 0"
    ELSE IF Len(cl) = 0 THEN "clear buffer is empty"
    ELSE IF Len(st) = 0 THEN "set buffer is empty"
    ELSE IF Len(cl) # Len(st) THEN "clear and set buffers have different length"
    ELSE "nil"

Raster32(s, resolution, cl, st, setMask, clearMask) ==
    LET e == Raster32_check(cl, st, setMask, clearMask)
    IN  IF e # "nil" THEN [err |-> e, clear |-> cl, set |-> st]
        ELSE CASE s.type = "Bits" -> Bits_raster32(s, resolution, cl, st, setMask, clearMask)
               [] s.type = "Edges" -> Edges_raster32(s, resolution, cl, st, setMask, clearMask)
               [] s.type = "Program" -> Program_raster32(s, resolution, cl, st, setMask, clearMask)
               [] OTHER -> [err |-> "stream: unknown type", clear |-> cl, set |-> st]

(***************************************************************************)
(* The inputs of a run.                                                    *)
(***************************************************************************)
BitsSources == {Bits(bs, r) : bs \in SeqsUpTo(ByteVals, MaxBytes), r \in ResVals}
EdgesSources == {Edges(es, r) : es \in SeqsUpTo(0..MaxEdgeDur, MaxEdges), r \in ResVals}
PartVals == {Bits(<<1>>, 1), Edges(<<1, 1>>, 1), Program(<<Bits(<<1>>, 1)>>, 1, 2)}
ProgramSources ==
    {Program(ps, 1, l) : ps \in SeqsUpTo(PartVals, MaxParts), l \in (-1)..MaxLoops}
Sources == BitsSources \cup EdgesSources \cup ProgramSources \cup {Foreign(1, 1)}

Call(s, resolution, setMask, clearMask) ==
    [s |-> s, resolution |-> resolution, setMask |-> setMask, clearMask |-> clearMask]

\* a freshly allocated buffer (p = 0), or one holding earlier words (p = 1)
Buffer(n, p) == [i \in 1..n |-> IF p = 0 THEN 0 ELSE (i % 4)]

BufShapes ==
    {<<n, n>> : n \in BufLens} \cup {<<0, 1>>, <<1, 0>>, <<8, 9>>, <<9, 8>>}

InitBuffers ==
    \E sh \in BufShapes, p \in {0, 1} :
        /\ clear0 = Buffer(sh[1], p)
        /\ set0 = Buffer(sh[2], p)
        /\ clear = clear0
        /\ set = set0

(***************************************************************************)
(* One Raster32 call on the run's buffers.                                 *)
(***************************************************************************)
CallRaster32(k) ==
    /\ errs[k] = "pending"
    /\ LET c == calls[k]
           r == Raster32(c.s, c.resolution, clear, set, c.setMask, c.clearMask)
       IN  /\ clear' = r.clear
           /\ set' = r.set
           /\ errs' = [errs EXCEPT ![k] = r.err]
    /\ done' = Append(done, k)
    /\ UNCHANGED <<calls, clear0, set0, div, clk, nrz, spi>>

Next == \E k \in DOMAIN calls : CallRaster32(k)

\* a run of one call
Init ==
    /\ \E s \in Sources, resolution \in ResVals, setMask \in 0..MaxMask, clearMask \in 0..MaxMask :
           calls = <<Call(s, resolution, setMask, clearMask)>>
    /\ InitBuffers
    /\ done = <<>>
    /\ errs = <<"pending">>
    /\ div = NoDiv /\ clk = NoClk /\ nrz = NoNrz /\ spi = NoSpi

Spec == Init /\ [][Next]_vars

(***************************************************************************)
(* A run of two calls, A = calls[1] and B = calls[2], on the same pair of  *)
(* buffers, made in either order.                                          *)
(***************************************************************************)
ShareBytes == {1, 178}
ShareSources ==
    {Bits(bs, 1) : bs \in [1..MaxBytes -> ShareBytes]}
        \cup {Bits(<<178>>, 1), Edges(<<1, 1>>, 1), Program(<<>>, 1, 1)}
ShareLens == {8, 8 * MaxBytes + 1}

\* the buffers already hold words of earlier passes
InitShare ==
    /\ \E a \in ShareSources, b \in ShareSources,
          sa \in 1..MaxShareMask, ca \in 1..MaxShareMask,
          sb \in 1..MaxShareMask, cb \in 1..MaxShareMask :
           calls = <<Call(a, 1, sa, ca), Call(b, 1, sb, cb)>>
    /\ \E n \in ShareLens :
           /\ clear0 = Buffer(n, 1)
           /\ set0 = Buffer(n, 1)
           /\ clear = clear0
           /\ set = set0
    /\ done = <<>>
    /\ errs = <<"pending", "pending">>
    /\ div = NoDiv /\ clk = NoClk /\ nrz = NoNrz /\ spi = NoSpi

SpecShare == InitShare /\ [][Next]_vars

(***************************************************************************)
(* The clock divisor solver of host/bcm283x (clock.go): findDivisorExact   *)
(* and findDivisor.                                                        *)
(*                                                                         *)
(* srcHz and desiredHz are uint64.  The exact and the oversampling search  *)
(* only divide and compare them, and run on plain integers (the inputs of  *)
(* the model are below 2^31).  The error-minimizing search multiplies by   *)
(* 100 and 200 and subtracts without a sign, so it runs on a uint64 held   *)
(* as five base-10000 limbs, least significant first, with subtraction     *)
(* wrapping at 2^64 as Go's does.                                          *)
(***************************************************************************)
clockDiviMax == 4095
oversampleCapHz == 100000    \* d > 100000
oversampleAlways == 10       \* i > 10

\* uint64(n), for 0 <= n < 2^31
U64(n) ==
    <<n % 10000, (n \div 10000) % 10000, (n \div 100000000) % 10000, 0, 0>>

U64_Zero == U64(0)
\* 2^64 = 18446744073709551616
U64_Modulus == <<1616, 955, 737, 6744, 1844>>
\* uint64(0xFFFFFFFFFFFFFFF) = 1152921504606846975
U64_MinErrInit == <<6975, 684, 5046, 2921, 115>>

RECURSIVE U64_LessFrom(_, _, _)
U64_LessFrom(a, b, k) ==
    IF k = 0 THEN FALSE
    ELSE IF a[k] # b[k] THEN a[k] < b[k]
    ELSE U64_LessFrom(a, b, k - 1)

\* The operators below bind their operands to their values first, each as
\* the one member of a set, so that an operand is worked out once.

\* a < b
U64_Less(a, b) == \E v \in {a}, w \in {b} : U64_LessFrom(v, w, 5)

\* a - b for a >= b, limb by limb with borrow
U64_RawSub(a, b) ==
    CHOOSE r \in
        {LET t1 == v[1] - w[1]
             t2 == v[2] - w[2] - (IF t1 < 0 THEN 1 ELSE 0)
             t3 == v[3] - w[3] - (IF t2 < 0 THEN 1 ELSE 0)
             t4 == v[4] - w[4] - (IF t3 < 0 THEN 1 ELSE 0)
             t5 == v[5] - w[5] - (IF t4 < 0 THEN 1 ELSE 0)
         IN  <<(t1 + 10000) % 10000, (t2 + 10000) % 10000, (t3 + 10000) % 10000,
               (t4 + 10000) % 10000, (t5 + 10000) % 10000>> : v \in {a}, w \in {b}} : TRUE

\* a - b in uint64: wraps to 2^64 - (b - a) when a < b
U64_Sub(a, b) ==
    CHOOSE r \in
        {IF U64_Less(v, w) THEN U64_RawSub(U64_Modulus, U64_RawSub(w, v))
         ELSE U64_RawSub(v, w) : v \in {a}, w \in {b}} : TRUE

\* a * c for a small c; no product of the model reaches 2^64
U64_MulSmall(a, c) ==
    CHOOSE r \in
        {LET t1 == v[1] * c
             t2 == v[2] * c + t1 \div 10000
             t3 == v[3] * c + t2 \div 10000
             t4 == v[4] * c + t3 \div 10000
             t5 == v[5] * c + t4 \div 10000
         IN  <<t1 % 10000, t2 % 10000, t3 % 10000, t4 % 10000, t5 % 10000>> : v \in {a}} : TRUE

\* a / d for a divisor d < 200000, long division from the top limb
U64_DivSmall(a, d) ==
    CHOOSE r \in
        {LET t5 == v[5]
             t4 == (t5 % d) * 10000 + v[4]
             t3 == (t4 % d) * 10000 + v[3]
             t2 == (t3 % d) * 10000 + v[2]
             t1 == (t2 % d) * 10000 + v[1]
         IN  <<t1 \div d, t2 \div d, t3 \div d, t4 \div d, t5 \div d>> : v \in {a}} : TRUE

(***************************************************************************)
(* findDivisorExact                                                        *)
(***************************************************************************)
\* the inner loop: the first i in j..x with d%i == 0 && d/i == desiredHz, or
\* 0.  Only i = d/desiredHz can pass the test, and only when desiredHz
\* divides d; for desiredHz = 0 the test asks d/i == 0, which of the d a
\* divisor j leaves only d = 0 passes, at the first i.
ExactI(d, desiredHz, j, x) ==
    IF desiredHz = 0 THEN (IF d = 0 THEN j ELSE 0)
    ELSE IF d % desiredHz = 0 /\ d \div desiredHz \in j..x THEN d \div desiredHz
    ELSE 0

\* the outer loop, leaving already when d reaches desiredHz
RECURSIVE ExactFrom_EarlyBreak(_, _, _, _, _)
ExactFrom_EarlyBreak(srcHz, desiredHz, x, y, j) ==
    IF j > y THEN <<0, 0>>
    ELSE IF srcHz % j # 0 THEN ExactFrom_EarlyBreak(srcHz, desiredHz, x, y, j + 1)
    ELSE LET d == srcHz \div j
         IN  IF d <= desiredHz THEN <<0, 0>>
             ELSE LET i == ExactI(d, desiredHz, j, x)
                  IN  IF i # 0 THEN <<i, j>>
                      ELSE ExactFrom_EarlyBreak(srcHz, desiredHz, x, y, j + 1)

\* the outer loop from j on
RECURSIVE ExactFrom(_, _, _, _, _)
ExactFrom(srcHz, desiredHz, x, y, j) ==
    IF j > y THEN <<0, 0>>
    ELSE IF srcHz % j # 0 THEN ExactFrom(srcHz, desiredHz, x, y, j + 1)
    ELSE LET d == srcHz \div j
         IN  IF d < desiredHz THEN <<0, 0>>
             ELSE LET i == ExactI(d, desiredHz, j, x)
                  IN  IF i # 0 THEN <<i, j>>
                      ELSE ExactFrom(srcHz, desiredHz, x, y, j + 1)

\* the outer loop run downwards: the largest y first
RECURSIVE ExactDownFrom(_, _, _, _, _)
ExactDownFrom(srcHz, desiredHz, x, y, j) ==
    IF j < 1 THEN <<0, 0>>
    ELSE IF srcHz % j # 0 \/ srcHz \div j < desiredHz
         THEN ExactDownFrom(srcHz, desiredHz, x, y, j - 1)
    ELSE LET i == ExactI(srcHz \div j, desiredHz, j, x)
         IN  IF i # 0 THEN <<i, j>>
             ELSE ExactDownFrom(srcHz, desiredHz, x, y, j - 1)

findDivisorExact_HighY(srcHz, desiredHz, x, y) == ExactDownFrom(srcHz, desiredHz, x, y, y)

\* called with x >= y (it panics otherwise)
findDivisorExact(srcHz, desiredHz, x, y) == ExactFrom(srcHz, desiredHz, x, y, 1)

(***************************************************************************)
(* findDivisor                                                             *)
(***************************************************************************)
Result(m, n, actual, rest, stage) ==
    [x |-> m, y |-> n, actual |-> actual, rest |-> rest, stage |-> stage]

\* the loop's break: d > 100000 && i > 10
OversampleStop_CapOnly(d, i) == d > oversampleCapHz
OversampleStop(d, i) == d > oversampleCapHz /\ i > oversampleAlways

\* err := actual - desiredHz on uint64; `if err < 0` is never true of a uint64
ErrOf_Abs(actual, desiredHz) ==
    IF U64_Less(actual, desiredHz) THEN U64_RawSub(desiredHz, actual)
    ELSE U64_RawSub(actual, desiredHz)
ErrOf(actual, desiredHz) == U64_Sub(actual, desiredHz)

\* desiredHz *= 200
ScaleDesired_NoOversample(desiredHz) == U64_MulSmall(U64(desiredHz), 100)
ScaleDesired(desiredHz) == U64_MulSmall(U64(desiredHz), 200)

\* the body of the inner loop: the accumulator after the candidate (i, j)
ScanStep(srcHz, desiredHz, i, j, acc) ==
    LET actual == U64_DivSmall(U64_DivSmall(srcHz, i), j)
        err == ErrOf(actual, desiredHz)
    IN  IF U64_Less(err, acc.minErr)
        THEN [minErr |-> err, selected |-> actual, m |-> i, n |-> j]
        ELSE acc

\* the inner loop of the error search, for one i, from j on (the accumulator
\* is bound to its value, as the one member of a set, before the loop goes on)
RECURSIVE ScanRow(_, _, _, _, _, _)
ScanRow(srcHz, desiredHz, i, j, maxY, acc) ==
    IF j > maxY THEN acc
    ELSE CHOOSE r \in {ScanRow(srcHz, desiredHz, i, j + 1, maxY, next) :
                            next \in {ScanStep(srcHz, desiredHz, i, j, acc)}} : TRUE

\* the outer loop of the error search over i in lo..hi, in increasing order;
\* acc is handed from each i to the next
RECURSIVE ScanRows(_, _, _, _, _, _)
ScanRows(srcHz, desiredHz, y, lo, hi, acc) ==
    IF lo > hi THEN acc
    ELSE IF lo = hi THEN ScanRow(srcHz, desiredHz, lo, 1, Min(y, lo), acc)
    ELSE CHOOSE r \in {ScanRows(srcHz, desiredHz, y, (lo + hi) \div 2 + 1, hi, left) :
                            left \in {ScanRows(srcHz, desiredHz, y, lo, (lo + hi) \div 2, acc)}} : TRUE

\* the third stage: no exact match, even with oversampling
MinErrSearch(srcHz, desiredHz, x, y) ==
    CHOOSE r \in {Result(acc.m, acc.n, U64_DivSmall(acc.selected, 100),
                         U64_DivSmall(acc.minErr, 100), "error") :
                     acc \in {ScanRows(s, d, y, 1, x,
                                       [minErr |-> U64_MinErrInit, selected |-> U64_Zero,
                                        m |-> 0, n |-> 0]) :
                                 s \in {U64_MulSmall(U64(srcHz), 100)},
                                 d \in {ScaleDesired(desiredHz)}}} : TRUE

(***************************************************************************)
(* A run of findDivisor(srcHz, desiredHz, x, y), a step at a time:         *)
(*   "exact"       about to try desiredHz itself                           *)
(*   "oversample"  in the loop over the multiples, at multiple div.i       *)
(*   "error"       out of the loop by break, about to search the least     *)
(*                 error                                                   *)
(*   "done"        returned div.ret                                        *)
(* div.d and div.mn are the target and the answer of the last              *)
(* findDivisorExact call.  div.ret.stage names the return statement taken, *)
(* which the Go tuple does not carry.                                      *)
(***************************************************************************)
Query(srcHz, desiredHz, x, y) ==
    [srcHz |-> srcHz, desiredHz |-> desiredHz, x |-> x, y |-> y]

Enter(q) ==
    [pc |-> "exact", q |-> q, i |-> 0, d |-> 0, mn |-> <<0, 0>>,
     ret |-> Result(0, 0, U64_Zero, U64_Zero, "none")]

RasterIdle ==
    /\ calls = <<>>
    /\ clear0 = <<>>
    /\ set0 = <<>>
    /\ clear = <<>>
    /\ set = <<>>
    /\ done = <<>>
    /\ errs = <<>>

\* The loop has no bound of its own.  For desiredHz >= 1 it breaks once
\* i*desiredHz is above 100000, and the model follows every turn.  For
\* desiredHz = 0, d stays 0 and no turn breaks or returns: such a run is
\* followed for MaxTurns turns.
MaxTurns == 1600
InLoop == div.pc = "oversample" /\ (div.q.desiredHz # 0 \/ div.i <= MaxTurns)

\* if m, n := findDivisorExact(srcHz, desiredHz, x, y); m != 0 { return ... }
findDivisor_Exact ==
    /\ div.pc = "exact"
    /\ LET q == div.q
           mn == findDivisorExact(q.srcHz, q.desiredHz, q.x, q.y)
       IN  div' = IF mn[1] # 0
                  THEN [div EXCEPT !.pc = "done", !.d = q.desiredHz, !.mn = mn,
                                   !.ret = Result(mn[1], mn[2], U64(q.desiredHz), U64_Zero,
                                                  "exact")]
                  ELSE [div EXCEPT !.pc = "oversample", !.d = q.desiredHz, !.mn = mn,
                                   !.i = 2]
    /\ UNCHANGED <<calls, clear0, set0, clear, set, done, errs, clk, nrz, spi>>

\* a turn of the loop that leaves i where it is
findDivisor_Oversample_NoAdvance ==
    /\ InLoop
    /\ LET q == div.q
           d == div.i * q.desiredHz
           mn == findDivisorExact(q.srcHz, d, q.x, q.y)
       IN  div' = IF OversampleStop(d, div.i) THEN [div EXCEPT !.pc = "error"]
                  ELSE IF mn[1] # 0
                  THEN [div EXCEPT !.pc = "done", !.d = d, !.mn = mn,
                                   !.ret = Result(mn[1], mn[2], U64(d), U64_Zero,
                                                  "oversampled")]
                  ELSE [div EXCEPT !.d = d, !.mn = mn]
    /\ UNCHANGED <<calls, clear0, set0, clear, set, done, errs, clk, nrz, spi>>

\* one turn of for i := uint64(2); ; i++ { ... }
findDivisor_Oversample ==
    /\ InLoop
    /\ LET q == div.q
           d == div.i * q.desiredHz
           mn == findDivisorExact(q.srcHz, d, q.x, q.y)
       IN  div' = IF OversampleStop(d, div.i) THEN [div EXCEPT !.pc = "error"]
                  ELSE IF mn[1] # 0
                  THEN [div EXCEPT !.pc = "done", !.d = d, !.mn = mn,
                                   !.ret = Result(mn[1], mn[2], U64(d), U64_Zero,
                                                  "oversampled")]
                  ELSE [div EXCEPT !.d = d, !.mn = mn, !.i = div.i + 1]
    /\ UNCHANGED <<calls, clear0, set0, clear, set, done, errs, clk, nrz, spi>>

\* the rest of the function, after the break
findDivisor_MinErr ==
    /\ div.pc = "error"
    /\ div' = [div EXCEPT !.pc = "done",
                          !.ret = MinErrSearch(div.q.srcHz, div.q.desiredHz, div.q.x, div.q.y)]
    /\ UNCHANGED <<calls, clear0, set0, clear, set, done, errs, clk, nrz, spi>>

NextDiv == findDivisor_Exact \/ findDivisor_Oversample \/ findDivisor_MinErr

(***************************************************************************)
(* The calls of the model: every small query, on frequencies that are      *)
(* multiples of 2500 Hz (so that the 100000 Hz cap is the 40th multiple)   *)
(* or one more, and the rows of TestFindDivisor that the search settles    *)
(* within the bounds of a run, with yMax 32 as in the test and 33.         *)
(***************************************************************************)
MaxDivX == 6
MaxDivY == 3
MaxSrcUnits == 48
MaxDesiredUnits == 6

\* findDivisorExact panics on x < y; its callers pass x >= y
SmallQueries ==
    {q \in {Query(2500 * s + o, 2500 * h, x, y) :
                s \in 1..MaxSrcUnits, o \in {0, 1}, h \in 1..MaxDesiredUnits,
                x \in 1..MaxDivX, y \in 1..MaxDivY} : q.x >= q.y}

\* the rows settled by an exact pair, of desiredHz or of a multiple
ExactRows ==
    {Query(192000000, desiredHz, clockDiviMax, y) :
        desiredHz \in {1, 2, 10, 100, 1000, 1500, 6000000}, y \in {32, 33}}

\* the first row, which goes through all 4095 x 33 candidates of the error
\* search
ErrorRow == Query(192000000, 192000000 \div clockDiviMax, clockDiviMax, 33)

\* the row of 7 Hz, which no multiple up to 100000 Hz settles: the loop runs
\* to i = 14286
LongRow == Query(192000000, 7, clockDiviMax, 32)

\* the same loop with dividers up to 6 and 3
LongLoopRow == Query(192000000, 7, MaxDivX, MaxDivY)

TableQueries == ExactRows \cup {ErrorRow, LongRow, LongLoopRow}

InitDiv ==
    /\ RasterIdle
    /\ clk = NoClk /\ nrz = NoNrz /\ spi = NoSpi
    /\ \E q \in SmallQueries \cup TableQueries : div = Enter(q)

SpecDiv == InitDiv /\ [][NextDiv]_vars

\* the call runs on: nothing but the function's own loops keeps it from its
\* next statement
InitDivFair ==
    /\ RasterIdle
    /\ clk = NoClk /\ nrz = NoNrz /\ spi = NoSpi
    /\ \E q \in SmallQueries \cup ExactRows \cup {LongLoopRow} : div = Enter(q)

SpecDivFair == InitDivFair /\ [][NextDiv]_vars /\ WF_vars(NextDiv)

(***************************************************************************)
(* The clock of host/bcm283x (clock.go): calcSource, clock.set and         *)
(* clock.setRaw over the two memory mapped registers ctl and div.          *)
(*                                                                         *)
(* clk.writes lists the register writes of the run, in order.  Whether a   *)
(* read of ctl answers BUSY is the chip's business: a clock that ran when  *)
(* the call began may answer BUSY to any read after a kill, a stopped one  *)
(* does not.  clk.kills counts the kill commands written and clk.spins the *)
(* BUSY answers read.  calcSource runs findDivisor in div, once per        *)
(* reference:                                                              *)
(*   "set"       clock.set entered                                         *)
(*   "wait"      clock.set(0) wrote the kill and reads ctl until BUSY is   *)
(*               clear                                                     *)
(*   "calc"      calcSource entered                                        *)
(*   "solve19"   findDivisor(clk19dot2MHz, ...) running in div             *)
(*   "solve500"  findDivisor(clk500MHz, ...) running in div                *)
(*   "raw"       calcSource back in clock.set without error, setRaw next   *)
(*   "stop"      setRaw in its loop that kills the clock while BUSY        *)
(*   "source"    setRaw wrote the divisor, the source is next              *)
(*   "enable"    setRaw wrote the source, the enable is next               *)
(*   "done"      the entry point returned clk.ret                          *)
(***************************************************************************)
clk19dot2MHz == 19200000
clk500MHz == 500000000
calcSourceMaxHz == 25000000        \* hz > 25000000
clockPasswdCtl == 1509949440       \* 0x5A << 24
clockBusy == 128                   \* 1 << 7
clockKill == 32                    \* 1 << 5
clockEnable == 16                  \* 1 << 4
clockSrc19dot2MHz == 1
clockSrcPLLD == 6
clockPasswdDiv == 1509949440       \* 0x5A << 24
clockDiviShift == 12

\* hz > 25000000
TooHigh_TenTimes(hz) == hz > 10 * calcSourceMaxHz
TooHigh(hz) == hz > calcSourceMaxHz

\* rest19 < rest500
Prefer19_Swapped(rest19, rest500) == U64_Less(rest500, rest19)
Prefer19(rest19, rest500) == U64_Less(rest19, rest500)

\* what calcSource returns: clockCtl, int, int, uint64, error
Source(ctl, r, err) ==
    [ctl |-> ctl, x |-> r.x, y |-> r.y, actual |-> r.actual, err |-> err]

NoResult == Result(0, 0, U64_Zero, U64_Zero, "none")
NoSource == Source(0, NoResult, "nil")
TooHighErr == "bcm283x-clock: desired frequency is too high"

\* a call of clock.set(hz, maxDiv) or of calcSource(hz, maxDiv), on a clock
\* whose control register holds ctl
EnterClock(entry, hz, maxDiv, ctl) ==
    [pc |-> entry, entry |-> entry, hz |-> hz, maxDiv |-> maxDiv,
     ctl |-> ctl, div |-> 0, writes |-> <<>>,
     running |-> (ctl \div clockBusy) % 2 = 1, kills |-> 0, spins |-> 0,
     r19 |-> NoResult, r500 |-> NoResult, cs |-> NoSource,
     ret |-> [actual |-> U64_Zero, div2 |-> 0, err |-> "pending"]]

\* calcSource returned cs: to its caller clock.set, or out of the run
Back(c, cs) ==
    IF c.entry = "calc" THEN [c EXCEPT !.pc = "done", !.cs = cs]
    ELSE IF cs.err # "nil"
    THEN [c EXCEPT !.pc = "done", !.cs = cs,
                   !.ret = [actual |-> U64_Zero, div2 |-> 0, err |-> cs.err]]
    ELSE [c EXCEPT !.pc = "raw", !.cs = cs]

\* the BUSY answers the reads of a call are followed for; a chip that holds
\* BUSY for good leaves the call in its loop
MaxSpins == 3

\* c.ctl&clockBusy != 0, as the chip may answer the read: the register
\* holds BUSY until a kill is written, and may hold it after
BusyAnswers(c) ==
    IF ~c.running THEN {FALSE}
    ELSE IF c.kills = 0 THEN {TRUE}
    ELSE IF c.spins < MaxSpins THEN {TRUE, FALSE}
    ELSE {FALSE}

\* c.ctl = clockPasswdCtl | clockKill
Kill(c) ==
    [c EXCEPT !.ctl = clockPasswdCtl + clockKill,
              !.writes = Append(c.writes, <<"ctl", clockPasswdCtl + clockKill>>),
              !.kills = c.kills + 1]

\* clock.set up to its wait, or to its call of calcSource
clock_set ==
    /\ clk.pc = "set"
    /\ clk' = IF clk.hz = 0
              THEN [Kill(clk) EXCEPT !.pc = "wait"]
              ELSE [clk EXCEPT !.pc = "calc"]
    /\ UNCHANGED <<calls, clear0, set0, clear, set, done, errs, div, nrz, spi>>

\* a turn of for c.ctl&clockBusy != 0 {}, or return 0, 0, nil
clock_set_Wait ==
    /\ clk.pc = "wait"
    /\ \E busy \in BusyAnswers(clk) :
           clk' = IF busy
                  THEN [clk EXCEPT !.spins = clk.spins + 1]
                  ELSE [clk EXCEPT !.pc = "done",
                                   !.ret = [actual |-> U64_Zero, div2 |-> 0, err |-> "nil"]]
    /\ UNCHANGED <<calls, clear0, set0, clear, set, done, errs, div, nrz, spi>>

\* calcSource up to its first findDivisor call
calcSource_Enter ==
    /\ clk.pc = "calc"
    /\ IF TooHigh(clk.hz)
       THEN /\ clk' = Back(clk, Source(0, NoResult, TooHighErr))
            /\ UNCHANGED div
       ELSE /\ clk' = [clk EXCEPT !.pc = "solve19"]
            /\ div' = Enter(Query(clk19dot2MHz, clk.hz, clockDiviMax, clk.maxDiv))
    /\ UNCHANGED <<calls, clear0, set0, clear, set, done, errs, nrz, spi>>

\* findDivisor(clk19dot2MHz, ...) returned
calcSource_After19 ==
    /\ clk.pc = "solve19"
    /\ div.pc = "done"
    /\ IF div.ret.rest = U64_Zero
       THEN /\ clk' = Back([clk EXCEPT !.r19 = div.ret],
                           Source(clockSrc19dot2MHz, div.ret, "nil"))
            /\ UNCHANGED div
       ELSE /\ clk' = [clk EXCEPT !.pc = "solve500", !.r19 = div.ret]
            /\ div' = Enter(Query(clk500MHz, clk.hz, clockDiviMax, clk.maxDiv))
    /\ UNCHANGED <<calls, clear0, set0, clear, set, done, errs, nrz, spi>>

\* findDivisor(clk500MHz, ...) returned
calcSource_After500 ==
    /\ clk.pc = "solve500"
    /\ div.pc = "done"
    /\ clk' = Back([clk EXCEPT !.r500 = div.ret],
                   IF div.ret.rest = U64_Zero
                   THEN Source(clockSrcPLLD, div.ret, "nil")
                   ELSE IF Prefer19(clk.r19.rest, div.ret.rest)
                   THEN Source(clockSrc19dot2MHz, clk.r19, "nil")
                   ELSE Source(clockSrcPLLD, div.ret, "nil"))
    /\ UNCHANGED <<calls, clear0, set0, clear, set, done, errs, div, nrz, spi>>

\* return actual, div2, c.setRaw(ctl, div): setRaw's tests of its arguments
clock_setRaw ==
    /\ clk.pc = "raw"
    /\ LET cs == clk.cs
       IN  clk' = IF cs.x < 1 \/ cs.x > clockDiviMax
                  THEN [clk EXCEPT !.pc = "done",
                                   !.ret = [actual |-> cs.actual, div2 |-> cs.y,
                                            err |-> "invalid clock divisor"]]
                  ELSE IF cs.ctl # clockSrc19dot2MHz /\ cs.ctl # clockSrcPLLD
                  THEN [clk EXCEPT !.pc = "done",
                                   !.ret = [actual |-> cs.actual, div2 |-> cs.y,
                                            err |-> "invalid clock control"]]
                  ELSE [clk EXCEPT !.pc = "stop"]
    /\ UNCHANGED <<calls, clear0, set0, clear, set, done, errs, div, nrz, spi>>

\* a turn of for c.ctl&clockBusy != 0 { c.ctl = clockPasswdCtl | clockKill },
\* or c.div = clockPasswdDiv | d
clock_setRaw_Stop ==
    /\ clk.pc = "stop"
    /\ \E busy \in BusyAnswers(clk) :
           clk' = IF busy
                  THEN [Kill(clk) EXCEPT !.spins = clk.spins + 1]
                  ELSE LET d == clk.cs.x * (2 ^ clockDiviShift)
                       IN  [clk EXCEPT !.pc = "source",
                                       !.div = clockPasswdDiv + d,
                                       !.writes = Append(clk.writes,
                                                         <<"div", clockPasswdDiv + d>>)]
    /\ UNCHANGED <<calls, clear0, set0, clear, set, done, errs, div, nrz, spi>>

\* after the first Nanospin: c.ctl = clockPasswdCtl | ctl
clock_setRaw_Source ==
    /\ clk.pc = "source"
    /\ clk' = [clk EXCEPT !.pc = "enable",
                          !.ctl = clockPasswdCtl + clk.cs.ctl,
                          !.writes = Append(clk.writes, <<"ctl", clockPasswdCtl + clk.cs.ctl>>)]
    /\ UNCHANGED <<calls, clear0, set0, clear, set, done, errs, div, nrz, spi>>

\* after the second Nanospin: c.ctl = clockPasswdCtl | ctl | clockEnable, and
\* the test of c.div.  What c.div reads back is the hardware's answer: the
\* divisor alone, or the word written.
clock_setRaw_Enable ==
    /\ clk.pc = "enable"
    /\ LET cs == clk.cs
           d == cs.x * (2 ^ clockDiviShift)
       IN  \E readback \in {d, clockPasswdDiv + d} :
               clk' = [clk EXCEPT
                   !.pc = "done",
                   !.ctl = clockPasswdCtl + cs.ctl + clockEnable,
                   !.div = readback,
                   !.writes = Append(clk.writes,
                                     <<"ctl", clockPasswdCtl + cs.ctl + clockEnable>>),
                   !.ret = [actual |-> cs.actual, div2 |-> cs.y,
                            err |-> IF readback # d
                                    THEN "can't write to clock divisor CPU register"
                                    ELSE "nil"]]
    /\ UNCHANGED <<calls, clear0, set0, clear, set, done, errs, div, nrz, spi>>

NextClock ==
    \/ clock_set
    \/ clock_set_Wait
    \/ calcSource_Enter
    \/ calcSource_After19
    \/ calcSource_After500
    \/ clock_setRaw
    \/ clock_setRaw_Stop
    \/ clock_setRaw_Source
    \/ clock_setRaw_Enable
    \/ findDivisor_Exact
    \/ findDivisor_Oversample
    \/ findDivisor_MinErr

\* the largest maxDiv of a run
MaxOversample == 2

\* the frequencies asked for: off, 7 Hz (14285 turns of the loop on either
\* reference), exact on 19.2 MHz (1500 by a multiple),
\* exact on neither reference (7000, 12 MHz), exact on 500 MHz only (the
\* ceiling), and above the ceiling
ClockHz == {0, 7, 1500, 4800, 7000, 100000, 12000000, 25000000, 25000001, 30000000}

\* the control register of a stopped and of a running clock
ClockCtl == {0, clockBusy + clockEnable + clockSrc19dot2MHz}

InitClock ==
    /\ RasterIdle
    /\ div = NoDiv /\ nrz = NoNrz /\ spi = NoSpi
    /\ \E entry \in {"set", "calc"}, hz \in ClockHz, maxDiv \in 1..MaxOversample,
          ctl \in ClockCtl :
           clk = EnterClock(entry, hz, maxDiv, ctl)

SpecClock == InitClock /\ [][NextClock]_vars

(***************************************************************************)
(* The SK6812RGBW driver (devices/sk6812rgbw): expandNRZ, raster and       *)
(* Dev.Write.  nrz holds a run of expandNRZ(b), a run of raster(out,       *)
(* pixels), or a run of Write(pixels) on a device of numLights lights      *)
(* whose d.b.Bits is out.  Write holds no lock and takes its time:         *)
(*   "write"     Write entered                                             *)
(*   "stream"    rastered into d.b.Bits, d.p.Stream(&d.b) running          *)
(*   "return"    Stream returned nrz.err, Write about to return            *)
(*   "done"      returned nrz.ret                                          *)
(***************************************************************************)
nrzFrame == 9586980                \* 0x924924
bytesPerLight == 16                \* numLights*4*4
errLength == "sk6218rgbw: invalid RGB stream length"

\* uint32(b&(1<<i)) << (3*i + 1 - i), with the data bit in the low slot
NRZBit_Trail(b, i) == BitAnd(b, Pow2(i)) * Pow2(2 * i)
NRZBit(b, i) == BitAnd(b, Pow2(i)) * Pow2(3 * i + 1 - i)

expandNRZ(b) ==
    LET o7 == BitOr(nrzFrame, NRZBit(b, 7))
        o6 == BitOr(o7, NRZBit(b, 6))
        o5 == BitOr(o6, NRZBit(b, 5))
        o4 == BitOr(o5, NRZBit(b, 4))
        o3 == BitOr(o4, NRZBit(b, 3))
        o2 == BitOr(o3, NRZBit(b, 2))
        o1 == BitOr(o2, NRZBit(b, 1))
    IN  BitOr(o1, NRZBit(b, 0))

\* byte(w)
Byte(w) == w % 256

\* the body of raster's loop for the pixel at in[i], in[i+1], in[i+2] (i from
\* 0): nine assignments, every one of them to out[3*i+0]
RasterPixel(out, in, i) ==
    LET g == expandNRZ(in[i + 2])
        w1 == [out EXCEPT ![3 * i + 1] = Byte(g \div 65536)]
        w2 == [w1 EXCEPT ![3 * i + 1] = Byte(g \div 256)]
        w3 == [w2 EXCEPT ![3 * i + 1] = Byte(g)]
        r == expandNRZ(in[i + 1])
        w4 == [w3 EXCEPT ![3 * i + 1] = Byte(r \div 65536)]
        w5 == [w4 EXCEPT ![3 * i + 1] = Byte(r \div 256)]
        w6 == [w5 EXCEPT ![3 * i + 1] = Byte(r)]
        b == expandNRZ(in[i + 3])
        w7 == [w6 EXCEPT ![3 * i + 1] = Byte(b \div 65536)]
        w8 == [w7 EXCEPT ![3 * i + 1] = Byte(b \div 256)]
    IN  [w8 EXCEPT ![3 * i + 1] = Byte(b)]

\* raster's loop from i on.  An index past the end of in or of out panics,
\* with everything before it written: in[i+1] is read first, then out[3*i]
\* is written for green and red, then in[i+2] is read.
RECURSIVE rasterFrom(_, _, _)
rasterFrom(out, in, i) ==
    IF i >= Len(in) THEN [out |-> out, panic |-> FALSE]
    ELSE IF i + 1 >= Len(in) THEN [out |-> out, panic |-> TRUE]
    ELSE IF 3 * i >= Len(out) THEN [out |-> out, panic |-> TRUE]
    ELSE IF i + 2 >= Len(in)
    THEN [out |-> [out EXCEPT ![3 * i + 1] = Byte(expandNRZ(in[i + 1]))], panic |-> TRUE]
    ELSE rasterFrom(RasterPixel(out, in, i), in, i + 3)

raster(out, in) == rasterFrom(out, in, 0)

EnterExpand(b) ==
    [pc |-> "expand", entry |-> "expandNRZ", b |-> b, enc |-> 0, numLights |-> 0, pixels |-> <<>>,
     out |-> <<>>, panic |-> FALSE, err |-> "pending",
     ret |-> [n |-> 0, err |-> "pending"]]

\* a call of raster(out, in) on a zeroed out of outLen bytes
EnterRaster(outLen, in) ==
    [pc |-> "raster", entry |-> "raster", b |-> 0, enc |-> 0, numLights |-> 0, pixels |-> in,
     out |-> [k \in 1..outLen |-> 0], panic |-> FALSE, err |-> "pending",
     ret |-> [n |-> 0, err |-> "pending"]]

\* a device fresh from New(p, numLights, speed), about to Write(pixels)
EnterWrite(numLights, pixels) ==
    [pc |-> "write", entry |-> "Write", b |-> 0, enc |-> 0, numLights |-> numLights, pixels |-> pixels,
     out |-> [k \in 1..(numLights * bytesPerLight) |-> 0],
     panic |-> FALSE, err |-> "pending",
     ret |-> [n |-> 0, err |-> "pending"]]

CallExpandNRZ ==
    /\ nrz.pc = "expand"
    /\ nrz' = [nrz EXCEPT !.pc = "done", !.enc = expandNRZ(nrz.b)]
    /\ UNCHANGED <<calls, clear0, set0, clear, set, done, errs, div, clk, spi>>

CallRaster ==
    /\ nrz.pc = "raster"
    /\ LET r == raster(nrz.out, nrz.pixels)
       IN  nrz' = [nrz EXCEPT !.pc = "done", !.out = r.out, !.panic = r.panic]
    /\ UNCHANGED <<calls, clear0, set0, clear, set, done, errs, div, clk, spi>>

\* Dev.Write up to its call of d.p.Stream
Dev_Write ==
    /\ nrz.pc = "write"
    /\ nrz' = IF Len(nrz.pixels) % 3 # 0
              THEN [nrz EXCEPT !.pc = "done", !.ret = [n |-> 0, err |-> errLength]]
              ELSE LET r == raster(nrz.out, nrz.pixels)
                   IN  IF r.panic
                       THEN [nrz EXCEPT !.pc = "done", !.out = r.out, !.panic = TRUE]
                       ELSE [nrz EXCEPT !.pc = "stream", !.out = r.out]
    /\ UNCHANGED <<calls, clear0, set0, clear, set, done, errs, div, clk, spi>>

\* err := d.p.Stream(&d.b): what Stream returns, and when, is the pin's
\* business
Dev_Write_Stream ==
    /\ nrz.pc = "stream"
    /\ \E err \in {"nil", "stream failed"} :
           nrz' = [nrz EXCEPT !.pc = "return", !.err = err]
    /\ UNCHANGED <<calls, clear0, set0, clear, set, done, errs, div, clk, spi>>

\* return len(pixels), err
Dev_Write_Return ==
    /\ nrz.pc = "return"
    /\ nrz' = [nrz EXCEPT !.pc = "done", !.ret = [n |-> Len(nrz.pixels), err |-> nrz.err]]
    /\ UNCHANGED <<calls, clear0, set0, clear, set, done, errs, div, clk, spi>>

NextNrz == CallExpandNRZ \/ CallRaster \/ Dev_Write \/ Dev_Write_Stream \/ Dev_Write_Return

MaxLights == 1
MaxPixels == 2
PixelBytes == {0, 178, 255}

InitNrz ==
    /\ RasterIdle
    /\ div = NoDiv /\ clk = NoClk /\ spi = NoSpi
    /\ \/ \E b \in 0..255 : nrz = EnterExpand(b)
       \/ \E numLights \in 0..MaxLights, pixels \in SeqsUpTo(PixelBytes, 3 * MaxPixels) :
              nrz = EnterWrite(numLights, pixels)
       \/ \E outLen \in {0, 3, 9 * MaxPixels}, in \in SeqsUpTo(PixelBytes, 3 * MaxPixels) :
              nrz = EnterRaster(outLen, in)

SpecNrz == InitNrz /\ [][NextNrz]_vars

(***************************************************************************)
(* The sysfs SPI handle (host/sysfs/spi.go).  Every method does its work   *)
(* under the handle's mutex, so a call is one step and the calls of        *)
(* concurrent users come in any order.  spi.last is the last call: its     *)
(* arguments, what it returned and the requests it made of the file, in    *)
(* order.  spi.called and spi.accepted remember whether DevParams was ever *)
(* called, and ever called with arguments it accepts.  spi.pc is "open"    *)
(* while s.f is the open file and "closed" once Close has set it to nil:   *)
(* every request made of the file then fails.                              *)
(***************************************************************************)
spiIOCMode == 92929                \* 0x16B01
spiIOCBitsPerWord == 92931         \* 0x16B03
spiIOCMaxSpeedHz == 289540         \* 0x46B04
spiIOCTx == 2124544                \* 0x206B00
maxBitsPerWord == 256

errNotInitialized == "sysfs-spi: DevParams wasn't called"
errOnce == "sysfs-spi: DevParams() can only be called exactly once"

\* a request made of the file: an ioctl of the given direction, or a read or
\* write of the file itself (op 0)
Req(dir, op, val) == [dir |-> dir, op |-> op, val |-> val]

\* what the device may read back where arg was set: arg, or another word
Readbacks(arg) == {arg, 0, 4}

\* setFlag(op, arg): the error and the ioctls made.  Either ioctl may fail,
\* and the device may read back something else than was set.
setFlag(s, op, arg) ==
    {[err |-> "sysfs-spi: ioctl", io |-> <<Req("set", op, arg)>>]}
    \cup IF s.pc = "closed" THEN {}
         ELSE {[err |-> "sysfs-spi: ioctl",
                io |-> <<Req("set", op, arg), Req("get", op, 0)>>]}
              \cup {[err |-> IF actual # arg THEN "sysfs-spi: set, read differ" ELSE "nil",
                     io |-> <<Req("set", op, arg), Req("get", op, actual)>>] :
                        actual \in Readbacks(arg)}

\* what a read, a write or a single ioctl of s.f may return
FileErrs(s, failure) == IF s.pc = "closed" THEN {failure} ELSE {"nil", failure}

\* the handle after a call returned
SpiReturn(s, op, args, err, io) ==
    [s EXCEPT !.n = s.n + 1, !.last = [op |-> op, args |-> args, ret |-> err, io |-> io]]

\* s.initialized = true; s.maxHzDev = maxHz
Initialized_Unmarked(s, maxHz) == [s EXCEPT !.maxHzDev = maxHz]
Initialized(s, maxHz) == [s EXCEPT !.initialized = TRUE, !.maxHzDev = maxHz]

\* if !s.initialized { return error }
Ready(s) == s.initialized

\* the branch of DevParams that programs the speed and returns
SpeedOnly(s) == s.maxHzDev # 0 /\ (s.maxHzBus = 0 \/ s.maxHzDev < s.maxHzBus)

\* s.Read(b) and s.Write(b) on a handle, dir "read" or "write"
FileIO(s, op, args, dir, len) ==
    IF ~Ready(s)
    THEN {SpiReturn(s, op, args, errNotInitialized, <<>>)}
    ELSE {SpiReturn(s, op, args, err, <<Req(dir, 0, len)>>) : err \in FileErrs(s, "file error")}

MaxSpiCalls == 3
MaxBuf == 2
SpiHz == {-1, 0, 500000, 1000000}
SpiModes == {0, 3}
SpiBits == {0, 8, 257}

SpiCall == spi.pc \in {"open", "closed"} /\ spi.n < MaxSpiCalls

SPI_Speed ==
    /\ SpiCall
    /\ \E maxHz \in SpiHz :
           IF maxHz < 1
           THEN spi' = SpiReturn(spi, "Speed", <<maxHz>>, "sysfs-spi: invalid speed", <<>>)
           ELSE LET s == [spi EXCEPT !.maxHzBus = maxHz]
                IN  IF s.maxHzDev = 0 \/ s.maxHzBus < s.maxHzDev
                    THEN \E o \in setFlag(s, spiIOCMaxSpeedHz, maxHz) :
                             spi' = SpiReturn(s, "Speed", <<maxHz>>, o.err, o.io)
                    ELSE spi' = SpiReturn(s, "Speed", <<maxHz>>, "nil", <<>>)
    /\ UNCHANGED <<calls, clear0, set0, clear, set, done, errs, div, clk, nrz>>

SPI_DevParams ==
    /\ SpiCall
    /\ \E maxHz \in SpiHz, mode \in SpiModes, bits \in SpiBits :
           LET args == <<maxHz, mode, bits>>
               c == [spi EXCEPT !.called = TRUE]
           IN  IF bits < 1 \/ bits > maxBitsPerWord
               THEN spi' = SpiReturn(c, "DevParams", args, "sysfs-spi: invalid bits", <<>>)
               ELSE IF maxHz < 0
               THEN spi' = SpiReturn(c, "DevParams", args, "sysfs-spi: invalid speed", <<>>)
               ELSE LET a == [c EXCEPT !.accepted = TRUE]
                    IN  IF Ready(a)
                        THEN spi' = SpiReturn(a, "DevParams", args, errOnce, <<>>)
                        ELSE LET s == Initialized(a, maxHz)
                             IN  IF SpeedOnly(s)
                                 THEN \E o \in setFlag(s, spiIOCMaxSpeedHz, maxHz) :
                                          spi' = SpiReturn(s, "DevParams", args, o.err, o.io)
                                 ELSE \E m \in setFlag(s, spiIOCMode, mode) :
                                          IF m.err # "nil"
                                          THEN spi' = SpiReturn(s, "DevParams", args, m.err, m.io)
                                          ELSE \E b \in setFlag(s, spiIOCBitsPerWord, bits) :
                                                   spi' = SpiReturn(s, "DevParams", args, b.err,
                                                                    m.io \o b.io)
    /\ UNCHANGED <<calls, clear0, set0, clear, set, done, errs, div, clk, nrz>>

SPI_Read ==
    /\ SpiCall
    /\ \E len \in 0..MaxBuf : spi' \in FileIO(spi, "Read", <<len>>, "read", len)
    /\ UNCHANGED <<calls, clear0, set0, clear, set, done, errs, div, clk, nrz>>

SPI_Write ==
    /\ SpiCall
    /\ \E len \in 0..MaxBuf : spi' \in FileIO(spi, "Write", <<len>>, "write", len)
    /\ UNCHANGED <<calls, clear0, set0, clear, set, done, errs, div, clk, nrz>>

\* Tx(w, r) for buffers of lw and lr bytes
SPI_Tx ==
    /\ SpiCall
    /\ \E lw \in 0..MaxBuf, lr \in 0..MaxBuf :
           LET args == <<lw, lr>>
           IN  IF lw = 0
               THEN IF lr = 0
                    THEN spi' = SpiReturn(spi, "Tx", args, "Tx with empty buffers", <<>>)
                    ELSE spi' \in FileIO(spi, "Tx", args, "read", lr)
               ELSE IF lr = 0
               THEN spi' \in FileIO(spi, "Tx", args, "write", lw)
               ELSE IF lw # lr
               THEN spi' = SpiReturn(spi, "Tx", args,
                                     "Tx with zero or non-equal length w&r slices", <<>>)
               ELSE IF ~Ready(spi)
               THEN spi' = SpiReturn(spi, "Tx", args, errNotInitialized, <<>>)
               ELSE \E err \in FileErrs(spi, "sysfs-spi: ioctl") :
                        spi' = SpiReturn(spi, "Tx", args, err, <<Req("set", spiIOCTx, lw)>>)
    /\ UNCHANGED <<calls, clear0, set0, clear, set, done, errs, div, clk, nrz>>

\* Close: err := s.f.Close(); s.f = nil
SPI_Close ==
    /\ SpiCall
    /\ \E err \in FileErrs(spi, "file error") :
           spi' = SpiReturn([spi EXCEPT !.pc = "closed"], "Close", <<>>, err,
                            <<Req("close", 0, 0)>>)
    /\ UNCHANGED <<calls, clear0, set0, clear, set, done, errs, div, clk, nrz>>

NextSpi == SPI_Speed \/ SPI_DevParams \/ SPI_Read \/ SPI_Write \/ SPI_Tx \/ SPI_Close

\* the handle NewSPI returns
InitSpi ==
    /\ RasterIdle
    /\ div = NoDiv /\ clk = NoClk /\ nrz = NoNrz
    /\ spi = [pc |-> "open", initialized |-> FALSE, maxHzBus |-> 0, maxHzDev |-> 0,
              n |-> 0, called |-> FALSE, accepted |-> FALSE,
              last |-> [op |-> "NewSPI", args |-> <<>>, ret |-> "nil", io |-> <<>>]]

SpecSpi == InitSpi /\ [][NextSpi]_vars

(***************************************************************************)
(* What the claims speak of.                                               *)
(***************************************************************************)
\* the run's single call has returned
OneCallDone == Len(calls) = 1 /\ errs[1] # "pending"
TheCall == calls[1]
TheSource == calls[1].s

Zeroed(buf) == \A i \in DOMAIN buf : buf[i] = 0

\* the arguments pass Raster32's own checks
ValidArgs ==
    /\ TheCall.setMask # 0
    /\ TheCall.clearMask # 0
    /\ Len(clear0) > 0
    /\ Len(clear0) = Len(set0)

\* sample k (from 0) of a packed bit vector, bit 0 of each byte first
SampleOfBits(bs, k) == (bs[(k \div 8) + 1] \div Pow2(k % 8)) % 2 = 1

\* the index of the edge that holds time t (0 when t is past the last edge)
RECURSIVE EdgeAt(_, _, _)
EdgeAt(es, t, n) ==
    IF n > Len(es) THEN 0
    ELSE IF t < es[n] THEN n
    ELSE EdgeAt(es, t - es[n], n + 1)

\* the level of an edge list at time t: edge 1 is High, every next edge toggles
LevelOfEdges(es, t) == EdgeAt(es, t, 1) % 2 = 1

\* slot i (from 0) lies within the source, sampled every `resolution`
Covered(s, resolution, i) ==
    CASE s.type = "Bits" -> i < 8 * Len(s.Bits)
      [] s.type = "Edges" -> i * resolution < SumSeq(s.Edges)
      [] OTHER -> FALSE

LevelAt(s, resolution, i) ==
    CASE s.type = "Bits" -> SampleOfBits(s.Bits, i)
      [] s.type = "Edges" -> LevelOfEdges(s.Edges, i * resolution)
      [] OTHER -> FALSE

\* slot i (from 0) was written as a sample of level lv
WrittenAs(i, lv) ==
    IF lv
    THEN set[i + 1] = BitOr(set0[i + 1], TheCall.setMask) /\ clear[i + 1] = clear0[i + 1]
    ELSE clear[i + 1] = BitOr(clear0[i + 1], TheCall.clearMask) /\ set[i + 1] = set0[i + 1]

Slots == 0..(Min(Len(clear), Len(set)) - 1)

(***************************************************************************)
(* C1.  A Bits source rasterized at its own resolution into zeroed buffers *)
(* of equal length n >= 8*len(Bits), with non-zero masks, succeeds and     *)
(* reads back through setMask as its own bits, bit 0 of each byte first.   *)
(***************************************************************************)
C1_Pre ==
    /\ OneCallDone
    /\ TheSource.type = "Bits"
    /\ TheCall.resolution = TheSource.Res
    /\ TheCall.setMask # 0 /\ TheCall.clearMask # 0
    /\ Zeroed(clear0) /\ Zeroed(set0)
    /\ Len(clear0) = Len(set0)
    /\ Len(clear0) >= 8 * Len(TheSource.Bits)

C1_Post ==
    /\ errs[1] = "nil"
    /\ \A k \in 0..(8 * Len(TheSource.Bits) - 1) :
           (BitAnd(set[k + 1], TheCall.setMask) # 0) <=> SampleOfBits(TheSource.Bits, k)

\* C1 as stated: for every equal length n >= 8*len(Bits) and every Res
C1_BitsReadBack_AsStated == C1_Pre => C1_Post

\* C1 amended: the buffers hold at least one slot (n >= 1 as well) and the
\* source's Res is not negative; then the call succeeds and the set buffer
\* reads back as the source's bits
C1_BitsReadBack ==
    (C1_Pre /\ Len(clear0) >= 1 /\ TheSource.Res >= 0) => C1_Post

\* C1 fails for a negative Res too, whatever the buffers: the length test
\* compares Res*len(Bits) with Res*n
C1_BitsReadBack_AnyRes ==
    (C1_Pre /\ Len(clear0) >= 1) => C1_Post

C1_Witness ==
    /\ C1_Pre
    /\ TheSource.Bits = <<1, 178>>
    /\ TheSource.Res = 1
    /\ Len(clear0) = 17
    /\ errs[1] = "nil"
    /\ set[1] # 0 /\ set[2] = 0 /\ set[16] # 0 /\ set[17] = 0

(***************************************************************************)
(* C2.  After a successful Raster32, every slot the source covers holds    *)
(* its previous word OR the mask of the source's level there (setMask in   *)
(* set for 1, clearMask in clear for 0), the other buffer's slot is        *)
(* unchanged, no bit is cleared and no bit outside the masks changes.      *)
(***************************************************************************)
C2_OrOfLevel ==
    (OneCallDone /\ errs[1] = "nil" /\ TheSource.type \in {"Bits", "Edges"}) =>
        /\ \A i \in Slots :
               Covered(TheSource, TheCall.resolution, i) =>
                   WrittenAs(i, LevelAt(TheSource, TheCall.resolution, i))
        /\ \A i \in Slots :
               /\ BitAnd(set[i + 1], set0[i + 1]) = set0[i + 1]
               /\ BitAnd(clear[i + 1], clear0[i + 1]) = clear0[i + 1]
               /\ BitOr(set0[i + 1], TheCall.setMask) = BitOr(set[i + 1], TheCall.setMask)
               /\ BitOr(clear0[i + 1], TheCall.clearMask) = BitOr(clear[i + 1], TheCall.clearMask)

(***************************************************************************)
(* C4.  For an Edges source and otherwise valid arguments (buffers large   *)
(* enough for its duration), Raster32 succeeds exactly when the target     *)
(* resolution is at most the source's Res.                                 *)
(***************************************************************************)
C4_EdgesResolutionGate ==
    ( /\ OneCallDone
      /\ TheSource.type = "Edges"
      /\ ValidArgs
      /\ Edges_Duration(TheSource) <= TheCall.resolution * Len(clear0) ) =>
        (errs[1] = "nil" <=> TheCall.resolution <= TheSource.Res)

(***************************************************************************)
(* C5.  A successful raster of an Edges source writes, at every slot i     *)
(* within its duration, the level of the edge list at time i*resolution:   *)
(* High during the first edge, toggling at each following edge.            *)
(***************************************************************************)
C5_EdgesLevels ==
    (OneCallDone /\ errs[1] = "nil" /\ TheSource.type = "Edges") =>
        \A i \in Slots :
            Covered(TheSource, TheCall.resolution, i) =>
                WrittenAs(i, LevelOfEdges(TheSource.Edges, i * TheCall.resolution))

(***************************************************************************)
(* C6.  After a successful raster of a Bits or Edges source, every slot of *)
(* clear and set beyond the source's last sample is as it was before.      *)
(***************************************************************************)
C6_TrailingUntouched ==
    (OneCallDone /\ errs[1] = "nil" /\ TheSource.type \in {"Bits", "Edges"}) =>
        \A i \in Slots :
            ~Covered(TheSource, TheCall.resolution, i) =>
                (clear[i + 1] = clear0[i + 1] /\ set[i + 1] = set0[i + 1])

(***************************************************************************)
(* C7.  Whenever Raster32 returns an error, both buffers hold what they    *)
(* held before the call.                                                   *)
(***************************************************************************)
C7_ErrorLeavesBuffers ==
    (OneCallDone /\ errs[1] # "nil") => (clear = clear0 /\ set = set0)

C7_Witness ==
    /\ OneCallDone
    /\ ValidArgs
    /\ TheSource.type = "Bits"
    /\ Len(TheSource.Bits) >= 1
    /\ Len(clear0) >= 8
    /\ ~Zeroed(clear0)
    /\ errs[1] = "TODO: implement resolution matching"

(***************************************************************************)
(* C8.  Raster32 returns an error whenever setMask is 0, clearMask is 0,   *)
(* either buffer is empty or the two buffers differ in length.             *)
(***************************************************************************)
C8_ArgumentChecks ==
    ( /\ OneCallDone
      /\ \/ TheCall.setMask = 0
         \/ TheCall.clearMask = 0
         \/ Len(clear0) = 0
         \/ Len(set0) = 0
         \/ Len(clear0) # Len(set0) ) =>
        errs[1] # "nil"

C8_Witness ==
    /\ OneCallDone
    /\ TheCall.setMask # 0 /\ TheCall.clearMask # 0
    /\ Len(clear0) = 8 /\ Len(set0) = 9
    /\ TheSource.type = "Bits"
    /\ TheCall.resolution = TheSource.Res
    /\ errs[1] = "clear and set buffers have different length"

(***************************************************************************)
(* C9.  Rasterizing a Bits source at a resolution other than its own Res   *)
(* returns an error and writes nothing.                                    *)
(***************************************************************************)
C9_BitsNoResampling ==
    (OneCallDone /\ TheSource.type = "Bits" /\ TheCall.resolution # TheSource.Res) =>
        (errs[1] # "nil" /\ clear = clear0 /\ set = set0)

C9_Witness ==
    /\ OneCallDone
    /\ ValidArgs
    /\ TheSource.type = "Bits"
    /\ TheSource.Res = 1 /\ TheCall.resolution = 2
    /\ Len(TheSource.Bits) = 1 /\ Len(clear0) = 8
    /\ errs[1] = "TODO: implement resolution matching"

(***************************************************************************)
(* C10. Raster32 of a Program whose Loops is -1 or otherwise not positive  *)
(* returns an error, while Duration() of that Program is a plain value:    *)
(* the sum of its parts' durations.                                        *)
(***************************************************************************)
C10_ProgramNonPositiveLoops ==
    (OneCallDone /\ TheSource.type = "Program" /\ TheSource.Loops <= 0) =>
        /\ errs[1] # "nil"
        /\ Duration(TheSource) =
               SumSeq([i \in 1..Len(TheSource.Parts) |-> Duration(TheSource.Parts[i])])

C10_Witness ==
    /\ OneCallDone
    /\ ValidArgs
    /\ TheSource.type = "Program"
    /\ TheSource.Loops = -1
    /\ Len(TheSource.Parts) = 1
    /\ errs[1] = "implement me"

(***************************************************************************)
(* C3.  Two sources A and B rasterized into the same buffers under masks   *)
(* that share no bit leave the same buffers whichever call is made first,  *)
(* and each reads back through its own masks as if it had run alone.       *)
(***************************************************************************)
MasksOf(c) == BitOr(c.setMask, c.clearMask)

DisjointMasks == BitAnd(MasksOf(calls[1]), MasksOf(calls[2])) = 0

RunOn(c, cl, st) == Raster32(c.s, c.resolution, cl, st, c.setMask, c.clearMask)

\* the buffers after calls i then j, from the buffers as allocated
InOrder(i, j) ==
    LET r == RunOn(calls[i], clear0, set0)
    IN  RunOn(calls[j], r.clear, r.set)

ReadsAsAlone(k) ==
    LET alone == RunOn(calls[k], clear0, set0)
    IN  \A i \in DOMAIN set :
            /\ BitAnd(set[i], calls[k].setMask) = BitAnd(alone.set[i], calls[k].setMask)
            /\ BitAnd(clear[i], calls[k].clearMask) = BitAnd(alone.clear[i], calls[k].clearMask)

C3_SharedBuffers ==
    (Len(calls) = 2 /\ Len(done) = 2 /\ DisjointMasks) =>
        /\ clear = InOrder(done[2], done[1]).clear
        /\ set = InOrder(done[2], done[1]).set
        /\ ReadsAsAlone(1)
        /\ ReadsAsAlone(2)

C3_Witness ==
    /\ Len(calls) = 2 /\ Len(done) = 2 /\ DisjointMasks
    /\ done = <<2, 1>>
    /\ errs = <<"nil", "nil">>
    /\ calls[1].s = Bits(<<1, 178>>, 1)
    /\ calls[2].s = Bits(<<178, 1>>, 1)
    /\ calls[1].setMask # calls[1].clearMask
    /\ ~Zeroed(clear0)
    /\ Len(clear0) = 17

(***************************************************************************)
(* C11. Raster32 of a Program with Loops >= 1, whose parts can each be     *)
(* rasterized at the target resolution and whose samples fit the buffers,  *)
(* succeeds and writes the samples of its parts in order, Loops times.     *)
(***************************************************************************)
RECURSIVE Concat(_)
Concat(qs) == IF qs = <<>> THEN <<>> ELSE Head(qs) \o Concat(Tail(qs))

RECURSIVE Repeat(_, _)
Repeat(q, n) == IF n <= 0 THEN <<>> ELSE q \o Repeat(q, n - 1)

\* the least n with n * resolution >= d
SlotsFor(d, resolution) == (d + resolution - 1) \div resolution

\* the levels a stream takes, one per slot of `resolution`
RECURSIVE LevelsOf(_, _)
LevelsOf(s, resolution) ==
    CASE s.type = "Bits" -> [k \in 1..(8 * Len(s.Bits)) |-> SampleOfBits(s.Bits, k - 1)]
      [] s.type = "Edges" ->
            [k \in 1..SlotsFor(SumSeq(s.Edges), resolution) |->
                LevelOfEdges(s.Edges, (k - 1) * resolution)]
      [] s.type = "Program" ->
            Repeat(Concat([i \in 1..Len(s.Parts) |-> LevelsOf(s.Parts[i], resolution)]),
                   s.Loops)
      [] OTHER -> <<>>

RECURSIVE Rasterizable(_, _)
Rasterizable(s, resolution) ==
    CASE s.type = "Bits" -> resolution = s.Res
      [] s.type = "Edges" -> resolution <= s.Res
      [] s.type = "Program" ->
            s.Loops >= 1 /\ \A i \in 1..Len(s.Parts) : Rasterizable(s.Parts[i], resolution)
      [] OTHER -> FALSE

C11_ProgramRaster ==
    ( /\ OneCallDone
      /\ TheSource.type = "Program"
      /\ TheSource.Loops >= 1
      /\ ValidArgs
      /\ Rasterizable(TheSource, TheCall.resolution)
      /\ Duration(TheSource) <= TheCall.resolution * Len(clear0)
      /\ Len(LevelsOf(TheSource, TheCall.resolution)) <= Len(clear0) ) =>
        /\ errs[1] = "nil"
        /\ LET lv == LevelsOf(TheSource, TheCall.resolution)
           IN  \A i \in 0..(Len(lv) - 1) : WrittenAs(i, lv[i + 1])

(***************************************************************************)
(* C12. For every Bits value, Duration() is Resolution() times the number  *)
(* of bits held: 8 times the number of bytes of Bits.                      *)
(***************************************************************************)
C12_BitsDuration ==
    (OneCallDone /\ TheSource.type = "Bits") =>
        Bits_Duration(TheSource) = Resolution(TheSource) * 8 * Len(TheSource.Bits)

(***************************************************************************)
(* C13. For every Edges value, Duration() is the sum of all entries of     *)
(* Edges (0 for none) and Resolution() is Res, whatever the entries are.   *)
(***************************************************************************)
\* the sum of q[1..n], accumulated from the left
SumTo(q, n) ==
    LET f[i \in 0..n] == IF i = 0 THEN 0 ELSE f[i - 1] + q[i]
    IN  f[n]

C13_EdgesDuration ==
    (OneCallDone /\ TheSource.type = "Edges") =>
        /\ Edges_Duration(TheSource) = SumTo(TheSource.Edges, Len(TheSource.Edges))
        /\ Resolution(TheSource) = TheSource.Res

C13_Witness ==
    /\ OneCallDone
    /\ TheSource.type = "Edges"
    /\ TheSource.Edges = <<1, 2>>
    /\ TheSource.Res = 3
    /\ Edges_Duration(TheSource) = 3

(***************************************************************************)
(* C14. For every Program with Loops >= 1, nested Programs included,       *)
(* Duration() is the sum of its parts' Duration() multiplied by Loops.     *)
(***************************************************************************)
C14_ProgramDuration ==
    (OneCallDone /\ TheSource.type = "Program" /\ TheSource.Loops >= 1) =>
        Program_Duration(TheSource) =
            TheSource.Loops *
                SumTo([i \in 1..Len(TheSource.Parts) |-> Duration(TheSource.Parts[i])],
                      Len(TheSource.Parts))

C14_Witness ==
    /\ OneCallDone
    /\ TheSource.type = "Program"
    /\ TheSource.Loops = 2
    /\ Len(TheSource.Parts) = 2
    /\ TheSource.Parts[1].type = "Program"
    /\ TheSource.Parts[2].type = "Edges"
    /\ Program_Duration(TheSource) = 8

(***************************************************************************)
(* The divisor solver.                                                     *)
(***************************************************************************)
\* the run is on a small query, where the claims are compared against every
\* pair of dividers
SmallRun == div.q.x <= MaxDivX

\* findDivisorExact has been called, for the target div.d, and returned div.mn
ExactCalled == div.pc \in {"oversample", "error", "done"}

\* the pairs an exact search for hz may return: 1 <= y <= yMax,
\* y <= x <= xMax, x * y * hz = srcHz
ExactPairs(q, hz) ==
    {p \in (1..q.x) \X (1..q.y) : p[2] <= p[1] /\ p[1] * p[2] * hz = q.srcHz}

\* C15: findDivisorExact returns (0, 0) if and only if no pair (x, y) with
\* 1 <= y <= yMax, y <= x <= xMax and x * y * desiredHz = srcHz exists;
\* otherwise the pair it returns is such a pair.
C15_ExactSearch ==
    (SmallRun /\ ExactCalled) =>
        /\ (div.mn = <<0, 0>>) <=> (ExactPairs(div.q, div.d) = {})
        /\ div.mn # <<0, 0>> => div.mn \in ExactPairs(div.q, div.d)

\* a pair was found past the first y, and not the only one
C15_Witness ==
    /\ SmallRun /\ ExactCalled
    /\ div.mn[2] >= 2
    /\ \E p \in ExactPairs(div.q, div.d) : p # div.mn

\* the number a uint64 of the model stands for, when it is below 21 * 10^8
Hz(a) ==
    IF a[5] = 0 /\ a[4] = 0 /\ a[3] < 21 THEN a[1] + 10000 * a[2] + 100000000 * a[3]
    ELSE -1

Returned == div.pc = "done"

\* C16: when an exact pair for desiredHz exists, findDivisor returns
\* achievedHz = desiredHz and residual 0, with the exact pair of the smallest y
\* (hence of the largest x).
C16_ExactPreferred ==
    (SmallRun /\ Returned /\ ExactPairs(div.q, div.q.desiredHz) # {}) =>
        /\ Hz(div.ret.actual) = div.q.desiredHz
        /\ Hz(div.ret.rest) = 0
        /\ <<div.ret.x, div.ret.y>> \in ExactPairs(div.q, div.q.desiredHz)
        /\ \A p \in ExactPairs(div.q, div.q.desiredHz) :
               div.ret.y <= p[2] /\ div.ret.x >= p[1]

\* returned the exact pair of the smallest y, where one of a larger y exists
C16_Witness ==
    /\ SmallRun /\ Returned
    /\ <<div.ret.x, div.ret.y>> \in ExactPairs(div.q, div.q.desiredHz)
    /\ \E p \in ExactPairs(div.q, div.q.desiredHz) : p[2] > div.ret.y

\* the first row of TestFindDivisor, with yMax = 33
C17_Query == Query(192000000, 192000000 \div clockDiviMax, clockDiviMax, 33)

\* C17 as stated: findDivisor(192000000, 192000000/4095, 4095, 33) returns
\* x = 89, y = 23, achievedHz = 93795 and residual 0.
C17_TableRow_AsStated ==
    (Returned /\ div.q = C17_Query) =>
        /\ div.ret.x = 89 /\ div.ret.y = 23
        /\ Hz(div.ret.actual) = 93795
        /\ Hz(div.ret.rest) = 0

\* C17, amended: findDivisor(192000000, 192000000/4095, 4095, 33) returns
\* x = 89, y = 23, achievedHz = 93795 and residual 23, out of the search for
\* the least error (no divider pair makes 46886 Hz or a tried multiple of it
\* exactly).
C17_TableRow ==
    (Returned /\ div.q = C17_Query) =>
        /\ div.ret.x = 89 /\ div.ret.y = 23
        /\ Hz(div.ret.actual) = 93795
        /\ Hz(div.ret.rest) = 23
        /\ div.ret.stage = "error"

C17_Witness == Returned /\ div.q = C17_Query /\ div.ret.x = 89

\* the multiples the oversampling stage tries: k <= 10 or k * desiredHz <= 100000
Tried(q) ==
    {k \in 2..(10 + 100000 \div q.desiredHz) : k <= 10 \/ k * q.desiredHz <= 100000}

\* the tried multiples for which an exact pair exists
Workable(q) == {k \in Tried(q) : ExactPairs(q, k * q.desiredHz) # {}}

\* findDivisor(192000000, 1, 4095, 33)
C18_Query == Query(192000000, 1, clockDiviMax, 33)

\* C18: when no exact pair for desiredHz exists, the multiples k = 2, 3, ...
\* of desiredHz are tried in increasing order, k being tried exactly when
\* k <= 10 or k * desiredHz <= 100000; the least tried k with an exact pair is
\* returned with achievedHz = k * desiredHz, residual 0 and the exact pair of
\* the smallest y; only when no tried k has one does the search for the least
\* error run.  findDivisor(192000000, 1, 4095, 33) returns achievedHz 1500.
C18_Oversampling ==
    /\ (SmallRun /\ Returned /\ ExactPairs(div.q, div.q.desiredHz) = {}) =>
           IF Workable(div.q) = {}
           THEN div.ret.stage = "error"
           ELSE LET k == CHOOSE w \in Workable(div.q) : \A v \in Workable(div.q) : w <= v
                    pairs == ExactPairs(div.q, k * div.q.desiredHz)
                IN  /\ div.ret.stage = "oversampled"
                    /\ Hz(div.ret.actual) = k * div.q.desiredHz
                    /\ Hz(div.ret.rest) = 0
                    /\ <<div.ret.x, div.ret.y>> \in pairs
                    /\ \A p \in pairs : div.ret.y <= p[2]
    /\ (Returned /\ div.q = C18_Query) =>
           /\ div.ret.stage = "oversampled"
           /\ Hz(div.ret.actual) = 1500
           /\ Hz(div.ret.rest) = 0

\* a multiple past the tenth was returned, and 1500 Hz for 1 Hz
C18_Witness ==
    /\ Returned /\ div.ret.stage = "oversampled"
    /\ \/ SmallRun /\ Hz(div.ret.actual) > 10 * div.q.desiredHz
       \/ div.q = C18_Query /\ Hz(div.ret.actual) = 1500

\* a multiple below the eleventh and above 100000 Hz was returned
C18_WitnessAboveCap ==
    /\ SmallRun /\ Returned /\ div.ret.stage = "oversampled"
    /\ Hz(div.ret.actual) > 100000

\* no tried multiple had a pair
C18_WitnessNone ==
    /\ SmallRun /\ Returned /\ div.ret.stage = "error"
    /\ Workable(div.q) = {}

\* the pairs the search for the least error goes through
Candidates(q) == {p \in (1..q.x) \X (1..q.y) : p[2] <= p[1]}

\* | floor(floor(100 * srcHz / x) / y) - 200 * desiredHz |
AbsErr(q, p) ==
    LET actual == ((100 * q.srcHz) \div p[1]) \div p[2]
        target == 200 * q.desiredHz
    IN  IF actual >= target THEN actual - target ELSE target - actual

\* p comes before r in the order of the loops: x ascending, then y
Before(p, r) == p[1] < r[1] \/ (p[1] = r[1] /\ p[2] <= r[2])

\* C19: when the search for the least error is reached, the pair returned is
\* the one of the least | floor(floor(100*srcHz/x)/y) - 200*desiredHz | over
\* 1 <= x <= xMax, 1 <= y <= min(x, yMax), candidates below the target
\* counted with their distance, and the first in the order of the loops among
\* equals.
C19_LeastError ==
    (SmallRun /\ Returned /\ div.ret.stage = "error") =>
        LET r == <<div.ret.x, div.ret.y>>
        IN  /\ r \in Candidates(div.q)
            /\ \A p \in Candidates(div.q) :
                   \/ AbsErr(div.q, r) < AbsErr(div.q, p)
                   \/ AbsErr(div.q, r) = AbsErr(div.q, p) /\ Before(r, p)

\* C20: the pair findDivisor returns always has 1 <= y <= x <= xMax and
\* y <= yMax.
C20_PairInRange ==
    Returned =>
        /\ 1 <= div.ret.y
        /\ div.ret.y <= div.ret.x
        /\ div.ret.x <= div.q.x
        /\ div.ret.y <= div.q.y

\* C21: for srcHz >= 1, desiredHz >= 1 and xMax >= yMax >= 1, findDivisor
\* terminates and returns its four values; it has no error to return, and a
\* residual that is not zero comes back as the fourth value.
C21_Terminates == <>Returned

\* returned out of the error search, with a residual that is not zero
C21_Witness ==
    /\ Returned /\ div.ret.stage = "error"
    /\ div.q.srcHz >= 1 /\ div.q.desiredHz >= 1 /\ div.q.x >= div.q.y /\ div.q.y >= 1
    /\ div.ret.rest # U64_Zero

\* C27: whenever findDivisor returns residual 0 with x >= 1, the dividers
\* make the returned frequency exactly: srcHz = achievedHz * x * y.
C27_ZeroResidualIsExact ==
    (Returned /\ div.ret.rest = U64_Zero /\ div.ret.x >= 1) =>
        /\ div.q.srcHz % (div.ret.x * div.ret.y) = 0
        /\ div.q.srcHz \div (div.ret.x * div.ret.y) = Hz(div.ret.actual)

(***************************************************************************)
(* The clock: calcSource and clock.set.                                    *)
(***************************************************************************)
\* the entry point of the run returned
ClockReturned == clk.pc = "done"

\* calcSource returned clk.cs, to clock.set or out of the run
SourceReturned == clk.pc \in {"raw", "stop", "source", "enable", "done"} /\ ~(clk.entry = "set" /\ clk.hz = 0)

\* C22: a request for 0 Hz goes by the divisor search at every entry point:
\* clock.set(0) returns (0, 0, nil) having written the kill command to the
\* control register and nothing else, and calcSource(0, ...) returns without
\* a search (findDivisor is not entered, or returns at once).
C22_ZeroBypasses ==
    clk.hz = 0 =>
        /\ div.pc \notin {"oversample", "error"}
        /\ (ClockReturned /\ clk.entry = "set") =>
               /\ clk.ret = [actual |-> U64_Zero, div2 |-> 0, err |-> "nil"]
               /\ clk.writes = <<<<"ctl", clockPasswdCtl + clockKill>>>>

\* C23: above 25,000,000 Hz calcSource returns an error and findDivisor is
\* not entered; clock.set returns that error with no write to the control or
\* the divisor register.  From 1 to 25,000,000 Hz calcSource returns no
\* error.
C23_Ceiling ==
    /\ clk.hz > 25000000 =>
           /\ div = NoDiv
           /\ clk.writes = <<>> /\ clk.ctl \in ClockCtl /\ clk.div = 0
           /\ SourceReturned => clk.cs.err # "nil"
           /\ (ClockReturned /\ clk.entry = "set") =>
                  clk.ret.err = clk.cs.err /\ clk.ret.err # "nil"
    /\ (clk.hz \in 1..25000000 /\ SourceReturned) => clk.cs.err = "nil"

\* clock.set returned the error of a frequency above the ceiling
C23_Witness ==
    /\ ClockReturned /\ clk.entry = "set"
    /\ clk.hz > 25000000 /\ clk.ret.err = TooHighErr

\* calcSource returned for a frequency within the ceiling
C23_WitnessWithin ==
    /\ SourceReturned /\ clk.hz = 25000000 /\ clk.cs.err = "nil"

\* the source cs is the reference ctl with the divisors and frequency of r
IsSource(cs, ctl, r) ==
    cs.ctl = ctl /\ cs.x = r.x /\ cs.y = r.y /\ cs.actual = r.actual

\* residual a is not larger than residual b
NotLarger(a, b) == a = b \/ U64_Less(a, b)

\* C24: from 1 to 25,000,000 Hz calcSource returns the 19.2 MHz reference
\* with its divisors whenever the residual of that reference is 0; otherwise
\* it has solved against the 500 MHz reference too and returns one of the two,
\* whose residual is not larger than the residual of the other.
C24_ReferenceChoice ==
    (clk.hz \in 1..25000000 /\ SourceReturned) =>
        IF clk.r19.rest = U64_Zero
        THEN IsSource(clk.cs, 1, clk.r19)
        ELSE /\ clk.r500.stage # "none"
             /\ \/ /\ IsSource(clk.cs, 1, clk.r19)
                   /\ NotLarger(clk.r19.rest, clk.r500.rest)
                \/ /\ IsSource(clk.cs, 6, clk.r500)
                   /\ NotLarger(clk.r500.rest, clk.r19.rest)

\* neither reference is exact, and the 19.2 MHz one has the smaller residual
C24_Witness ==
    /\ SourceReturned /\ clk.hz \in 1..25000000
    /\ clk.r19.rest # U64_Zero /\ clk.r500.rest # U64_Zero
    /\ U64_Less(clk.r19.rest, clk.r500.rest)
    /\ clk.cs.ctl = 1

\* neither reference is exact, and the 500 MHz one has the smaller residual
C24_Witness500 ==
    /\ SourceReturned /\ clk.hz \in 1..25000000
    /\ clk.r19.rest # U64_Zero /\ clk.r500.rest # U64_Zero
    /\ U64_Less(clk.r500.rest, clk.r19.rest)
    /\ clk.cs.ctl = 6

(***************************************************************************)
(* Truncation of a Bits source.                                            *)
(***************************************************************************)
\* C28: if Raster32 on a Bits source returns no error, every one of the
\* source's 8*len(Bits) samples has been written into the buffers; buffers
\* that cannot hold them all are refused.
C28_BitsNotTruncated ==
    (OneCallDone /\ TheSource.type = "Bits" /\ errs[1] = "nil") =>
        /\ Len(clear) >= 8 * Len(TheSource.Bits)
        /\ \A k \in 0..(8 * Len(TheSource.Bits) - 1) :
               WrittenAs(k, SampleOfBits(TheSource.Bits, k))

(***************************************************************************)
(* The SK6812RGBW encoding.                                                *)
(***************************************************************************)
\* bit k (from 0) of the word w
BitOf(w, k) == (w \div Pow2(k)) % 2

Expanded == nrz.pc = "done" /\ nrz.entry = "expandNRZ"

\* C25: expandNRZ(b) is a 24 bit value in which, for every bit i of b, the
\* bits 3i+2, 3i+1, 3i are 1, bit i of b, 0; so expandNRZ(0xFF) is 110 eight
\* times, expandNRZ(0x00) is 100 eight times, and b is read back from the
\* middle bits.
C25_ExpandNRZ ==
    Expanded =>
        /\ nrz.enc \in 0..(Pow2(24) - 1)
        /\ \A i \in 0..7 :
               /\ BitOf(nrz.enc, 3 * i + 2) = 1
               /\ BitOf(nrz.enc, 3 * i + 1) = BitOf(nrz.b, i)
               /\ BitOf(nrz.enc, 3 * i) = 0
        /\ nrz.b = 255 => nrz.enc = 14380470
        /\ nrz.b = 0 => nrz.enc = 9586980

\* a byte of mixed bits was expanded
C25_Witness == Expanded /\ nrz.b = 178 /\ nrz.enc # 9586980

\* the three bytes of the 24 bit encoding of a byte, most significant first
Encoded(b) == <<(expandNRZ(b) \div 65536) % 256, (expandNRZ(b) \div 256) % 256, expandNRZ(b) % 256>>

\* raster has run to its end: called by itself, or by a Write that went on to
\* Stream
Rastered ==
    /\ nrz.pc \in {"stream", "return", "done"}
    /\ nrz.entry \in {"raster", "Write"}
    /\ ~nrz.panic /\ nrz.ret.err # errLength

\* C29: for an input of 3n bytes, raster writes 9 bytes for every pixel p:
\* out[9p .. 9p+8] holds the encodings of the pixel's green, red and blue
\* byte, in that order, each most significant byte first.
C29_RasterLayout ==
    (Rastered /\ Len(nrz.pixels) % 3 = 0) =>
        \A p \in 0..(Len(nrz.pixels) \div 3 - 1) :
            /\ Len(nrz.out) >= 9 * p + 9
            /\ \A k \in 1..3 :
                   /\ nrz.out[9 * p + k] = Encoded(nrz.pixels[3 * p + 2])[k]
                   /\ nrz.out[9 * p + 3 + k] = Encoded(nrz.pixels[3 * p + 1])[k]
                   /\ nrz.out[9 * p + 6 + k] = Encoded(nrz.pixels[3 * p + 3])[k]

(***************************************************************************)
(* The SPI handle.                                                         *)
(***************************************************************************)
\* the step is a call of one of the methods ops
CallOf(ops) == spi'.n = spi.n + 1 /\ spi'.last.op \in ops

\* the step's call failed without asking anything of the file
Refused == spi'.last.ret # "nil" /\ spi'.last.io = <<>>

\* C26, as stated: Read, Write and Tx return an error and do no I/O as long
\* as DevParams has not been called, and once DevParams has been called, every
\* later DevParams call returns an error, changes no maxHzDev and makes no
\* ioctl.
C26_AsStated ==
    [][/\ (~spi.called /\ CallOf({"Read", "Write", "Tx"})) => Refused
       /\ (spi.called /\ CallOf({"DevParams"})) =>
              (Refused /\ spi'.maxHzDev = spi.maxHzDev)]_vars

\* C26, amended: Read, Write and Tx return an error and do no I/O as long as
\* no DevParams call had arguments DevParams accepts (bits in 1..256, maxHz
\* >= 0), and once such a call has been made, whatever it returned, every
\* later DevParams call returns an error, changes no maxHzDev and makes no
\* ioctl.
C26_OnceAccepted ==
    [][/\ (~spi.accepted /\ CallOf({"Read", "Write", "Tx"})) => Refused
       /\ (spi.accepted /\ CallOf({"DevParams"})) =>
              (Refused /\ spi'.maxHzDev = spi.maxHzDev)]_vars

\* a well-formed DevParams call was refused because of an earlier one
C26_Witness ==
    /\ spi.pc = "open" /\ spi.last.op = "DevParams" /\ spi.last.ret = errOnce
    /\ spi.last.args = <<500000, 3, 8>> /\ spi.maxHzDev = 1000000

\* a well-formed Tx was refused on a handle where only a malformed DevParams
\* call had been made
C26_WitnessIO ==
    /\ spi.pc = "open" /\ spi.last.op = "Tx" /\ spi.last.args = <<2, 2>>
    /\ spi.last.ret = errNotInitialized /\ spi.called /\ ~spi.accepted

\* the call set the flag op to val and read val back
Programmed(op, val) ==
    \E i, j \in DOMAIN spi.last.io :
        /\ i < j
        /\ spi.last.io[i] = Req("set", op, val)
        /\ spi.last.io[j] = Req("get", op, val)

\* C30: whenever DevParams(maxHz, mode, bits) returns nil, the mode and the
\* bits per word were set on the device and read back equal.
C30_ModeAndBitsProgrammed ==
    (spi.pc \in {"open", "closed"} /\ spi.last.op = "DevParams" /\ spi.last.ret = "nil") =>
        /\ Programmed(spiIOCMode, spi.last.args[2])
        /\ Programmed(spiIOCBitsPerWord, spi.last.args[3])

====
